---- MODULE Spec2Model ----
(***************************************************************************)
(* Model of the bapsflib HDF5 mapping layer:                               *)
(*   - hdfMap (bapsflib/lapd/_hdf/hdfmapper.py): construction of the file  *)
(*     mapping and its read-only properties;                               *)
(*   - hdfMap_control_n5700ps (bapsflib/_hdf_mappers/map_controls/         *)
(*     n5700ps.py): _build_configs and the command-list RE pattern.        *)
(* An HDF5 file is a record of its root attributes, the ordered listing of *)
(* the root, of the 'MSI' group and of the 'Raw data + config' group, and  *)
(* the attributes of the two groups.  A Python dict is a function, a list  *)
(* or tuple is a sequence, an attribute value is a record [t, v] whose t   *)
(* is the Python type ("bytes", "str", "int").                             *)
(***************************************************************************)
EXTENDS Integers, Sequences, FiniteSets, TLC

VARIABLES
    hdf_obj,            \* the h5py.File handed to hdfMap (self.__hdf_obj)
    pc,                 \* position of hdfMap.__init__
    err,                \* exception hdfMap.__init__ ended with ("none" if none)
    attached,           \* the fields of the hdfMap object assigned so far
    attrs,              \* self._attrs
    msi,                \* self.__msi
    digitizers,         \* self.__digitizers
    controls,           \* self.__controls
    unknowns,           \* self.__unknowns
    ret,                \* the last property read: its name and the value (or exception) it gave
    ret_dict,           \* the value of the last property read, when a dict
    ret_list,           \* the value of the last property read, when a list
    control_group,      \* the h5py.Group handed to hdfMap_control_n5700ps
    ps_pc,              \* position of _build_configs
    ps_i,               \* index in sgroup_names of the next subgroup
    configs,            \* self._configs
    build_successful,   \* self._build_successful ("unset" before the build)
    flag_log,           \* the values assigned to _build_successful, in order
    cl,                 \* a command-list entry given to the VOLT pattern
    cl_res              \* the result of searching cl with the VOLT pattern

mapVars == <<hdf_obj, pc, err, attached, attrs, msi, digitizers, controls, unknowns, ret, ret_dict, ret_list>>
psVars == <<control_group, ps_pc, ps_i, configs, build_successful, flag_log>>
clVars == <<cl, cl_res>>
vars == <<hdf_obj, pc, err, attached, attrs, msi, digitizers, controls, unknowns, ret, ret_dict, ret_list,
          control_group, ps_pc, ps_i, configs, build_successful, flag_log, cl, cl_res>>

(***************************************************************************)
(* Bounds of the model.                                                    *)
(***************************************************************************)
\* how many items unknown to the mapping constructors a group may hold
MaxUnknown == 1
\* how many configuration subgroups an N5700_PS group may hold
MaxConfigs == 2
\* how many symbols a command-list entry may hold
MaxLen == 4

(***************************************************************************)
(* Python values.                                                          *)
(***************************************************************************)
EmptyDict == <<>>

PyBytes(s) == [t |-> "bytes", v |-> s]
PyStr(s) == [t |-> "str", v |-> s]
PyInt(s) == [t |-> "int", v |-> s]

\* a byte string that is no UTF-8 text
BadBytes == PyBytes("\\xff")

IsBytes(val) == val.t = "bytes"

\* does val.decode('utf-8') raise UnicodeDecodeError
DecodeRaises(val) == val = BadBytes

\* Decode without the conversion to str
DecodeKeepsBytes(val) == val

\* val.decode('utf-8'), for a val on which it does not raise
Decode(val) == PyStr(val.v)

Range(s) == {s[i] : i \in 1..Len(s)}

\* the elements of the ordered listing order that are in the set S
Listing(order, S) == SelectSeq(order, LAMBDA x : x \in S)

(***************************************************************************)
(* The HDF5 file.                                                          *)
(***************************************************************************)
MSI_GNAME == "MSI"
DATA_GNAME == "Raw data + config"
LAPD_KEY == "LaPD HDF5 software version"

\* the names of the first n items unknown to the mapping constructors
UnknownNames(n) == [i \in 1..n |-> "Unknown " \o ToString(i)]

\* the MSI diagnostics, digitizers and control devices the files may hold,
\* each in the order h5py lists them
MsiOrder == <<"Discharge">>
DigiOrder == <<"SIS 3301", "SIS crate">>
ControlOrder == <<"N5700_PS">>
DataOrder == ControlOrder \o DigiOrder

\* attribute dicts of the root, of the MSI group and of the data group
RootAttrChoices ==
    { EmptyDict,
      (LAPD_KEY :> PyBytes("1.1")) }

MsiAttrChoices ==
    { EmptyDict,
      ("Calibration" :> PyBytes("cal")),
      ("Calibration" :> PyInt("7")),
      ("Calibration" :> BadBytes) }

DataAttrChoices ==
    { EmptyDict,
      ("Data run" :> PyBytes("run1")),
      ("Data run" :> PyInt("7")),
      ("Data run" :> BadBytes),
      ("Data run" :> PyBytes("run1") @@ "Investigator" :> PyBytes("me")),
      ("Data run" :> PyBytes("run1") @@ "Investigator" :> BadBytes) }

\* the order in which a dict of attributes is iterated
AttrOrder == <<"Calibration", "Data run", "Investigator">>

\* a file without the MSI group and without the data group
BareFile(rattrs, nroot) ==
    [ attrs |-> rattrs,
      root |-> UnknownNames(nroot),
      msi |-> <<>>, msi_attrs |-> EmptyDict,
      data |-> <<>>, data_attrs |-> EmptyDict ]

WithMsi(f, known, n, ga) ==
    [f EXCEPT !.root = <<MSI_GNAME>> \o @,
              !.msi = Listing(MsiOrder, known) \o UnknownNames(n),
              !.msi_attrs = ga]

WithData(f, known, n, ga) ==
    [f EXCEPT !.root = IF Len(@) > 0 /\ @[1] = MSI_GNAME
                       THEN <<MSI_GNAME, DATA_GNAME>> \o Tail(@)
                       ELSE <<DATA_GNAME>> \o @,
              !.data = Listing(DataOrder, known) \o UnknownNames(n),
              !.data_attrs = ga]

BareFiles == { BareFile(ra, n) : ra \in RootAttrChoices, n \in 0..MaxUnknown }

MsiFiles(F) ==
    { WithMsi(f, k, n, ga) : f \in F, k \in SUBSET Range(MsiOrder),
                             n \in 0..MaxUnknown, ga \in MsiAttrChoices }

DataFiles(F) ==
    { WithData(f, k, n, ga) : f \in F, k \in SUBSET Range(DataOrder),
                              n \in 0..MaxUnknown, ga \in DataAttrChoices }

Files == BareFiles \cup MsiFiles(BareFiles) \cup DataFiles(BareFiles)
            \cup DataFiles(MsiFiles(BareFiles))

\* the .name (absolute path) of the item name of the group at path
PathOf(path, name) == path \o "/" \o name

\* the mapping object of the item name of the group at path
Mapper(kind, path, name) == [t |-> kind, v |-> PathOf(path, name)]

None == [t |-> "NoneType", v |-> "None"]
PyBool(b) == [t |-> "bool", v |-> IF b THEN "True" ELSE "False"]

(***************************************************************************)
(* The mapping collections (bapsflib._hdf_mappers), each a dict with one   *)
(* mapping object per known item found in the group.                       *)
(***************************************************************************)
HDFMapMSI(f) ==
    [n \in Range(f.msi) \cap Range(MsiOrder) |-> Mapper("msi", "/" \o MSI_GNAME, n)]

hdfMap_digitizers(f) ==
    [n \in Range(f.data) \cap Range(DigiOrder) |-> Mapper("digitizer", "/" \o DATA_GNAME, n)]

HDFMapControls(f) ==
    [n \in Range(f.data) \cap Range(ControlOrder) |-> Mapper("control", "/" \o DATA_GNAME, n)]

(***************************************************************************)
(* hdfMap: the properties that read the file.                              *)
(***************************************************************************)
is_lapd_hdf(f) == LAPD_KEY \in DOMAIN f.attrs

has_msi_group(f) == MSI_GNAME \in Range(f.root)

has_data_group(f) == DATA_GNAME \in Range(f.root)

\* the loop "for key, val in d.items(): if isinstance(val, bytes): d[key] =
\* val.decode('utf-8')" from the i-th key on: the dict it leaves, and whether
\* a decode raised
RECURSIVE DecodeItems(_, _)
DecodeItems(d, i) ==
    IF i > Len(AttrOrder) THEN [dict |-> d, raised |-> FALSE]
    ELSE IF AttrOrder[i] \notin DOMAIN d THEN DecodeItems(d, i + 1)
    ELSE IF ~IsBytes(d[AttrOrder[i]]) THEN DecodeItems(d, i + 1)
    ELSE IF DecodeRaises(d[AttrOrder[i]]) THEN [dict |-> d, raised |-> TRUE]
    ELSE DecodeItems([d EXCEPT ![AttrOrder[i]] = Decode(@)], i + 1)

\* the names a sequence of names maps to under the group at path
Paths(path, names) == [i \in 1..Len(names) |-> PathOf(path, names[i])]

(***************************************************************************)
(* hdfMap.__init__                                                         *)
(***************************************************************************)
\* CheckLapd without the raise
CheckLapdNoRaise ==
    /\ pc = "new"
    /\ pc' = "attrs"
    /\ UNCHANGED <<hdf_obj, err, attached, attrs, msi, digitizers, controls, unknowns, ret, ret_dict, ret_list>>
    /\ UNCHANGED <<psVars, clVars>>

\* lines 76-83: store the file, raise ValueError if it is not a LaPD file
CheckLapd ==
    /\ pc = "new"
    /\ IF is_lapd_hdf(hdf_obj)
       THEN pc' = "attrs" /\ err' = err
       ELSE pc' = "raised" /\ err' = "ValueError"
    /\ UNCHANGED <<hdf_obj, attached, attrs, msi, digitizers, controls, unknowns, ret, ret_dict, ret_list>>
    /\ UNCHANGED <<psVars, clVars>>

\* PopulateAttrs decoding the attributes of the file's groups in place
PopulateAttrsInFile ==
    /\ pc = "attrs"
    /\ LET m == IF has_msi_group(hdf_obj)
                THEN DecodeItems(hdf_obj.msi_attrs, 1)
                ELSE [dict |-> EmptyDict, raised |-> FALSE]
           d == IF m.raised \/ ~has_data_group(hdf_obj)
                THEN [dict |-> EmptyDict, raised |-> FALSE]
                ELSE DecodeItems(hdf_obj.data_attrs, 1)
       IN /\ attrs' = (MSI_GNAME :> m.dict @@ DATA_GNAME :> d.dict)
          /\ hdf_obj' = [hdf_obj EXCEPT !.msi_attrs = m.dict, !.data_attrs = d.dict]
          /\ IF m.raised \/ d.raised
             THEN pc' = "raised" /\ err' = "UnicodeDecodeError"
             ELSE pc' = "msi" /\ err' = err
    /\ attached' = attached \cup {"attrs"}
    /\ UNCHANGED <<msi, digitizers, controls, unknowns, ret, ret_dict, ret_list>>
    /\ UNCHANGED <<psVars, clVars>>

\* lines 85-111: initialize and populate self._attrs
PopulateAttrs ==
    /\ pc = "attrs"
    /\ LET m == IF has_msi_group(hdf_obj)
                THEN DecodeItems(hdf_obj.msi_attrs, 1)
                ELSE [dict |-> EmptyDict, raised |-> FALSE]
           d == IF m.raised \/ ~has_data_group(hdf_obj)
                THEN [dict |-> EmptyDict, raised |-> FALSE]
                ELSE DecodeItems(hdf_obj.data_attrs, 1)
       IN /\ attrs' = (MSI_GNAME :> m.dict @@ DATA_GNAME :> d.dict)
          /\ IF m.raised \/ d.raised
             THEN pc' = "raised" /\ err' = "UnicodeDecodeError"
             ELSE pc' = "msi" /\ err' = err
    /\ attached' = attached \cup {"attrs"}
    /\ UNCHANGED <<hdf_obj, msi, digitizers, controls, unknowns, ret, ret_dict, ret_list>>
    /\ UNCHANGED <<psVars, clVars>>

\* lines 232-241
attach_msi ==
    /\ pc = "msi"
    /\ msi' = IF has_msi_group(hdf_obj) THEN HDFMapMSI(hdf_obj) ELSE EmptyDict
    /\ attached' = attached \cup {"msi"}
    /\ pc' = "digitizers"
    /\ UNCHANGED <<hdf_obj, err, attrs, digitizers, controls, unknowns, ret, ret_dict, ret_list>>
    /\ UNCHANGED <<psVars, clVars>>

\* attach_digitizers testing for the MSI group instead of the data group
attach_digitizers_msi_test ==
    /\ pc = "digitizers"
    /\ digitizers' = IF has_msi_group(hdf_obj) THEN hdfMap_digitizers(hdf_obj)
                     ELSE EmptyDict
    /\ attached' = attached \cup {"digitizers"}
    /\ pc' = "controls"
    /\ UNCHANGED <<hdf_obj, err, attrs, msi, controls, unknowns, ret, ret_dict, ret_list>>
    /\ UNCHANGED <<psVars, clVars>>

\* lines 258-268
attach_digitizers ==
    /\ pc = "digitizers"
    /\ digitizers' = IF has_data_group(hdf_obj) THEN hdfMap_digitizers(hdf_obj)
                     ELSE EmptyDict
    /\ attached' = attached \cup {"digitizers"}
    /\ pc' = "controls"
    /\ UNCHANGED <<hdf_obj, err, attrs, msi, controls, unknowns, ret, ret_dict, ret_list>>
    /\ UNCHANGED <<psVars, clVars>>

\* lines 284-294
attach_controls ==
    /\ pc = "controls"
    /\ controls' = IF has_data_group(hdf_obj) THEN HDFMapControls(hdf_obj)
                   ELSE EmptyDict
    /\ attached' = attached \cup {"controls"}
    /\ pc' = "unknowns"
    /\ UNCHANGED <<hdf_obj, err, attrs, msi, digitizers, unknowns, ret, ret_dict, ret_list>>
    /\ UNCHANGED <<psVars, clVars>>

\* lines 321-341: the unknown items of the root, of the MSI group and of the
\* data group, in this order
ScanUnknowns(f, m, dg, c) ==
    Paths("", SelectSeq(f.root, LAMBDA item : item \notin {MSI_GNAME, DATA_GNAME}))
    \o (IF has_msi_group(f)
        THEN Paths("/" \o MSI_GNAME,
                   SelectSeq(f.msi, LAMBDA item : item \notin DOMAIN m))
        ELSE <<>>)
    \o (IF has_data_group(f)
        THEN Paths("/" \o DATA_GNAME,
                   SelectSeq(f.data, LAMBDA item : item \notin (DOMAIN dg \cup DOMAIN c)))
        ELSE <<>>)

\* lines 311-341, and the return of __init__
attach_unknowns ==
    /\ pc = "unknowns"
    /\ unknowns' = ScanUnknowns(hdf_obj, msi, digitizers, controls)
    /\ attached' = attached \cup {"unknowns"}
    /\ pc' = "done"
    /\ UNCHANGED <<hdf_obj, err, attrs, msi, digitizers, controls, ret, ret_dict, ret_list>>
    /\ UNCHANGED <<psVars, clVars>>

(***************************************************************************)
(* hdfMap: the properties of a constructed mapping.                        *)
(***************************************************************************)
has_msi_diagnostics == Cardinality(DOMAIN msi) # 0
has_digitizers == Cardinality(DOMAIN digitizers) # 0
has_controls == Cardinality(DOMAIN controls) # 0
has_unknowns == IF Len(unknowns) = 0 THEN FALSE ELSE TRUE

\* the candidates in the other order
candidates_reversed == <<"SIS crate", "SIS 3301">>

possible_candidates == <<"SIS 3301", "SIS crate">>

\* lines 393-404: the first of the candidates from the i-th on that is a key
\* of digis, None if there is none
RECURSIVE ScanCandidates(_, _, _)
ScanCandidates(cands, digis, i) ==
    IF i > Len(cands) THEN None
    ELSE IF cands[i] \in DOMAIN digis THEN digis[cands[i]]
    ELSE ScanCandidates(cands, digis, i + 1)

main_digitizer == ScanCandidates(possible_candidates, digitizers, 1)

\* lines 407-429
run_info ==
    LET d == attrs[DATA_GNAME]
        get(key) == IF key \in DOMAIN d THEN d[key] ELSE PyStr("")
    IN [name \in {"run name", "run description", "run status", "run date"} |->
          CASE name = "run name" -> get("Data run")
            [] name = "run description" -> get("Description")
            [] name = "run status" -> get("Status")
            [] name = "run date" -> get("Status date")]

\* lines 432-457
exp_info ==
    LET d == attrs[DATA_GNAME]
        get(key) == IF key \in DOMAIN d THEN d[key] ELSE PyStr("")
    IN [name \in {"investigator", "exp name", "exp description", "exp set name",
                  "exp set description"} |->
          CASE name = "investigator" -> get("Investigator")
            [] name = "exp name" -> get("Experiment name")
            [] name = "exp description" -> get("Experiment description")
            [] name = "exp set name" -> get("Experiment set name")
            [] name = "exp set description" -> get("Experiment set description")]

\* lines 365-375: the value hdf_version returns, or the exception it raises
hdf_version(f) ==
    IF LAPD_KEY \notin DOMAIN f.attrs
    THEN [exc |-> "KeyError", val |-> None]
    ELSE IF DecodeRaises(f.attrs[LAPD_KEY])
    THEN [exc |-> "UnicodeDecodeError", val |-> None]
    ELSE [exc |-> "none", val |-> Decode(f.attrs[LAPD_KEY])]

Returned(prop, val) == [prop |-> prop, exc |-> "none", val |-> val]

\* a read of the property prop of the constructed mapping, which returns the
\* value val, the dict d or the list l
Read(prop, val, d, l) ==
    /\ pc = "done"
    /\ ret' = Returned(prop, val)
    /\ ret_dict' = d
    /\ ret_list' = l
    /\ UNCHANGED <<hdf_obj, pc, err, attached, attrs, msi, digitizers, controls, unknowns>>
    /\ UNCHANGED <<psVars, clVars>>

ReadValue(prop, val) == Read(prop, val, EmptyDict, <<>>)
ReadDict(prop, d) == Read(prop, None, d, <<>>)
ReadList(prop, l) == Read(prop, None, EmptyDict, l)

get_attrs == ReadDict("attrs", attrs)
get_msi == ReadDict("msi", msi)
get_digitizers == ReadDict("digitizers", digitizers)
get_controls == ReadDict("controls", controls)
get_unknowns == ReadList("unknowns", unknowns)
get_has_msi_diagnostics == ReadValue("has_msi_diagnostics", PyBool(has_msi_diagnostics))
get_has_digitizers == ReadValue("has_digitizers", PyBool(has_digitizers))
get_has_controls == ReadValue("has_controls", PyBool(has_controls))
get_has_unknowns == ReadValue("has_unknowns", PyBool(has_unknowns))
get_main_digitizer == ReadValue("main_digitizer", main_digitizer)
get_run_info == ReadDict("run_info", run_info)
get_exp_info == ReadDict("exp_info", exp_info)

\* a read of hdf_version, which uses the stored file only
get_hdf_version ==
    /\ pc \in {"done", "bound"}
    /\ ret' = [prop |-> "hdf_version", exc |-> hdf_version(hdf_obj).exc,
               val |-> hdf_version(hdf_obj).val]
    /\ ret_dict' = EmptyDict
    /\ ret_list' = <<>>
    /\ UNCHANGED <<hdf_obj, pc, err, attached, attrs, msi, digitizers, controls, unknowns>>
    /\ UNCHANGED <<psVars, clVars>>

MapInit ==
    /\ hdf_obj \in Files
    /\ pc = "new"
    /\ err = "none"
    /\ attached = {}
    /\ attrs = EmptyDict
    /\ msi = EmptyDict
    /\ digitizers = EmptyDict
    /\ controls = EmptyDict
    /\ unknowns = <<>>
    /\ ret = Returned("none", None)
    /\ ret_dict = EmptyDict
    /\ ret_list = <<>>

\* no hdfMap is under construction
MapIdle ==
    /\ hdf_obj = BareFile(EmptyDict, 0)
    /\ pc = "idle"
    /\ err = "none"
    /\ attached = {}
    /\ attrs = EmptyDict
    /\ msi = EmptyDict
    /\ digitizers = EmptyDict
    /\ controls = EmptyDict
    /\ unknowns = <<>>
    /\ ret = Returned("none", None)
    /\ ret_dict = EmptyDict
    /\ ret_list = <<>>

MapNext ==
    \/ CheckLapd
    \/ PopulateAttrs
    \/ attach_msi
    \/ attach_digitizers
    \/ attach_controls
    \/ attach_unknowns
    \/ get_attrs
    \/ get_msi
    \/ get_digitizers
    \/ get_controls
    \/ get_unknowns
    \/ get_has_msi_diagnostics
    \/ get_has_digitizers
    \/ get_has_controls
    \/ get_has_unknowns
    \/ get_main_digitizer
    \/ get_run_info
    \/ get_exp_info
    \/ get_hdf_version

(***************************************************************************)
(* The N5700_PS command-list RE pattern (n5700ps.py lines 46-49)           *)
(*   (?P<VOLT>(\bSOURCE:VOLTAGE:LEVEL\s)(?P<VAL>(\d+\.\d*|\.\d+|\d+\b)))   *)
(* A text is a sequence of symbols: the command token, a digit, a letter,  *)
(* a blank, a line feed, '.' and '-'.  The token is one symbol; it begins  *)
(* and ends with a letter.                                                 *)
(***************************************************************************)
TOKEN == "SOURCE:VOLTAGE:LEVEL"
DIGIT == "5"
LETTER == "x"
BLANK == " "
LF == "\n"

\* \d, \s and \w of Python's re
IsDigit(c) == c = DIGIT
IsSpace(c) == c \in {BLANK, LF}
IsWord(c) == c \in {TOKEN, DIGIT, LETTER}

\* \b at the position before s[i] (i = Len(s) + 1: at the end of s)
WordBoundary(s, i) ==
    (i > 1 /\ i - 1 <= Len(s) /\ IsWord(s[i - 1])) # (i >= 1 /\ i <= Len(s) /\ IsWord(s[i]))

\* how many symbols the greedy \d* takes at position j
RECURSIVE DigitRun(_, _)
DigitRun(s, j) ==
    IF j >= 1 /\ j <= Len(s) /\ IsDigit(s[j]) THEN 1 + DigitRun(s, j + 1) ELSE 0

SetMax(S) == CHOOSE x \in S : \A y \in S : y <= x

\* \d+ without the \b
DigitsNoBoundary(s, j) == DigitRun(s, j)

\* \d+\b at position j: the most digits, at least one, that end at a word
\* boundary (0: no match); the greedy \d+ gives digits back until \b holds
DigitsThenBoundary(s, j) ==
    LET K == {k \in 1..DigitRun(s, j) : WordBoundary(s, j + k)}
    IN IF K = {} THEN 0 ELSE SetMax(K)

\* (\d+\.\d*|\.\d+|\d+\b) at position j: the length of the match of the first
\* alternative that matches, 0 if none does
ValLen(s, j) ==
    LET d == DigitRun(s, j)
    IN IF d >= 1 /\ j + d <= Len(s) /\ s[j + d] = "."
       THEN d + 1 + DigitRun(s, j + d + 1)
       ELSE IF j >= 1 /\ j <= Len(s) /\ s[j] = "." /\ DigitRun(s, j + 1) >= 1
       THEN 1 + DigitRun(s, j + 1)
       ELSE DigitsThenBoundary(s, j)

\* does the pattern match at position i
VoltMatchAt(s, i) ==
    /\ WordBoundary(s, i)
    /\ s[i] = TOKEN
    /\ i + 1 <= Len(s)
    /\ IsSpace(s[i + 1])
    /\ ValLen(s, i + 2) > 0

NoMatch == [matched |-> FALSE, VOLT |-> <<>>, VAL |-> <<>>]

\* re.search of the pattern in s: the leftmost match and its groups
VoltSearch(s) ==
    LET I == {i \in 1..Len(s) : VoltMatchAt(s, i)}
    IN IF I = {} THEN NoMatch
       ELSE LET i == CHOOSE x \in I : \A y \in I : x <= y
                n == ValLen(s, i + 2)
            IN [matched |-> TRUE,
                VOLT |-> SubSeq(s, i, i + 1 + n),
                VAL |-> SubSeq(s, i + 2, i + 1 + n)]

\* the symbols of a command-list entry
EntrySymbols == {TOKEN, DIGIT, LETTER, BLANK, ".", "-"}

Entries == UNION {[1..n -> EntrySymbols] : n \in 0..MaxLen}

\* a search of the entry cl with the pattern
SearchEntry ==
    /\ cl_res.state = "new"
    /\ cl_res' = [state |-> "done", m |-> VoltSearch(cl)]
    /\ UNCHANGED cl
    /\ UNCHANGED <<mapVars, psVars>>

ClInit ==
    /\ cl \in Entries
    /\ cl_res = [state |-> "new", m |-> NoMatch]

\* no entry is being searched
ClIdle ==
    /\ cl = <<>>
    /\ cl_res = [state |-> "idle", m |-> NoMatch]

(***************************************************************************)
(* hdfMap_control_n5700ps: the control group and _build_configs.           *)
(* A control group is its configuration subgroups (sgroup_names, in h5py's *)
(* order), the attributes of each, and its 'Run time list' dataset: absent *)
(* ("none"), without the field 'Shot number' ("noshot"), or whole ("ok").  *)
(***************************************************************************)
PS_PATH == "/Raw data + config/N5700_PS"

\* construct_dataset_name, lines 184-188
construct_dataset_name == "Run time list"

ConfigNames(n) == [i \in 1..n |-> "nsconf_" \o ToString(i)]

\* the pairs (configs key, attribute name) of lines 94-99
pairs ==
    << <<"IP address", "IP address">>,
       <<"power supply device", "Model Number">>,
       <<"initial state", "Initialization commands">>,
       <<"command list", "N5700 power supply command list">> >>

\* the bytes of an attribute that holds text
PyText(t) == [t |-> "bytes", v |-> t]

\* command lists as stored in the attribute: lines of text
CommandTexts ==
    { <<TOKEN, BLANK, DIGIT>>,
      <<BLANK, TOKEN, BLANK, DIGIT, ".", LF, LETTER, BLANK, LF>> }

GeneralAttrs == {"IP address", "Model Number", "Initialization commands"}

\* the attribute dicts a configuration subgroup may have
ConfigAttrChoices ==
    { [a \in present |-> PyBytes(a)] @@ clattr :
        present \in SUBSET GeneralAttrs,
        clattr \in {EmptyDict}
                   \cup {("N5700 power supply command list" :> PyText(t)) : t \in CommandTexts} }

ControlGroup(n, ds, ca) == [sgroup_names |-> ConfigNames(n), dset |-> ds, cattrs |-> ca]

\* str.splitlines()
RECURSIVE SplitLines(_)
SplitLines(text) ==
    IF text = <<>> THEN <<>>
    ELSE LET B == {k \in 1..Len(text) : text[k] = LF}
         IN IF B = {} THEN <<text>>
            ELSE LET k == CHOOSE x \in B : \A y \in B : x <= y
                 IN <<SubSeq(text, 1, k - 1)>> \o SplitLines(SubSeq(text, k + 1, Len(text)))

\* str.strip()
RECURSIVE Strip(_)
Strip(text) ==
    IF text = <<>> THEN text
    ELSE IF IsSpace(text[1]) THEN Strip(Tail(text))
    ELSE IF IsSpace(text[Len(text)]) THEN Strip(SubSeq(text, 1, Len(text) - 1))
    ELSE text

PyTuple(seq) == [t |-> "tuple", v |-> seq]
PyDict(d) == [t |-> "dict", v |-> d]

\* lines 103-119: the conditioned value of the attribute val for the key
ConditionValue(key, val) ==
    IF key = "command list"
    THEN PyTuple([i \in 1..Len(SplitLines(val.v)) |-> Strip(SplitLines(val.v)[i])])
    ELSE Decode(val)

\* lines 100-135: the loop over the pairs from the i-th on, on the entry cfg
\* of a subgroup with attributes ca: the entry it leaves, and whether it
\* ended the build (the command list is missing)
RECURSIVE GeneralInfo(_, _, _)
GeneralInfo(cfg, ca, i) ==
    IF i > Len(pairs) THEN [cfg |-> cfg, failed |-> FALSE]
    ELSE IF pairs[i][2] \in DOMAIN ca
    THEN GeneralInfo((pairs[i][1] :> ConditionValue(pairs[i][1], ca[pairs[i][2]])) @@ cfg,
                     ca, i + 1)
    ELSE IF pairs[i][1] # "command list"
    THEN GeneralInfo((pairs[i][1] :> None) @@ cfg, ca, i + 1)
    ELSE [cfg |-> (pairs[i][1] :> None) @@ cfg, failed |-> TRUE]

\* the state values dict of the command-list template for the command list
\* cmds: the VOLT state value if the pattern matches every command, else {}
construct_state_values_dict(cmds, dpath) ==
    IF Len(cmds) > 0 /\ \A i \in 1..Len(cmds) : VoltSearch(cmds[i]).matched
    THEN ("VOLT" :> ("dset paths" :> PyStr(dpath)
                     @@ "dset field" :> PyTuple(<<"Command index">>)
                     @@ "command list" :>
                          PyTuple([i \in 1..Len(cmds) |-> VoltSearch(cmds[i]).VAL])
                     @@ "cl str" :> PyTuple(cmds)))
    ELSE EmptyDict

\* lines 164-182
default_state_values_dict(cfg) ==
    ("command" :> ("dset paths" :> cfg["dset paths"]
                   @@ "dset field" :> PyTuple(<<"Command index">>)
                   @@ "re pattern" :> None
                   @@ "command list" :> cfg["command list"]
                   @@ "cl str" :> cfg["command list"]
                   @@ "shape" :> PyTuple(<<>>)))

\* lines 137-147
ShotnumDict(dpath) ==
    ("dset paths" :> PyStr(dpath)
     @@ "dset field" :> PyTuple(<<"Shot number">>)
     @@ "shape" :> PyTuple(<<>>)
     @@ "dtype" :> PyStr("int32"))

\* WithStateValues leaving the entry as it is when the template raises
WithStateValuesSkip(cfg, dpath, raised) ==
    IF raised THEN cfg
    ELSE LET sv == construct_state_values_dict(cfg["command list"].v, dpath)
         IN ("state values" :> PyDict(IF sv # EmptyDict THEN sv
                                      ELSE default_state_values_dict(cfg))) @@ cfg

\* lines 149-162: the entry cfg with its 'state values'; raised: the template
\* raised KeyError
WithStateValues(cfg, dpath, raised) ==
    LET sv == IF raised THEN EmptyDict
              ELSE construct_state_values_dict(cfg["command list"].v, dpath)
    IN ("state values" :> PyDict(IF sv # EmptyDict THEN sv
                                 ELSE default_state_values_dict(cfg))) @@ cfg

\* lines 56-65: the start of _build_configs
BuildStart ==
    /\ ps_pc = "new"
    /\ IF Len(control_group.sgroup_names) = 0
       THEN /\ build_successful' = "False"
            /\ flag_log' = flag_log \o <<"True", "False">>
            /\ ps_pc' = "returned"
       ELSE /\ build_successful' = "True"
            /\ flag_log' = Append(flag_log, "True")
            /\ ps_pc' = "loop"
    /\ UNCHANGED <<control_group, ps_i, configs>>
    /\ UNCHANGED <<mapVars, clVars>>

\* FailBuild without the return: the loop goes on with the next subgroup
FailBuildNoReturn ==
    /\ build_successful' = "False"
    /\ flag_log' = Append(flag_log, "False")
    /\ ps_pc' = IF ps_i >= Len(control_group.sgroup_names) THEN "returned" ELSE "loop"
    /\ ps_i' = ps_i + 1

\* the build ends with the flag False (a warn, the assignment and the return)
FailBuild ==
    /\ build_successful' = "False"
    /\ flag_log' = Append(flag_log, "False")
    /\ ps_pc' = "returned"
    /\ ps_i' = ps_i

\* lines 74-162: one pass of the loop over sgroup_names
BuildConfig ==
    /\ ps_pc = "loop"
    /\ LET name == control_group.sgroup_names[ps_i]
           ca == control_group.cattrs[name]
           dpath == PathOf(PS_PATH, construct_dataset_name)
           g == GeneralInfo(EmptyDict, ca, 1)
           c5 == ("dset paths" :> PyStr(dpath)) @@ g.cfg
           c6 == ("shotnum" :> PyDict(ShotnumDict(dpath))) @@ c5
       IN IF control_group.dset = "none"
          THEN FailBuild /\ configs' = configs
          ELSE IF g.failed
          THEN FailBuild /\ configs' = (name :> g.cfg) @@ configs
          ELSE IF control_group.dset = "noshot"
          THEN /\ configs' = (name :> c5) @@ configs
               /\ ps_pc' = "raised"
               /\ UNCHANGED <<ps_i, build_successful, flag_log>>
          ELSE /\ \E raised \in BOOLEAN :
                     configs' = (name :> WithStateValues(c6, dpath, raised)) @@ configs
               /\ ps_i' = ps_i + 1
               /\ ps_pc' = IF ps_i = Len(control_group.sgroup_names)
                           THEN "returned" ELSE "loop"
               /\ UNCHANGED <<build_successful, flag_log>>
    /\ UNCHANGED control_group
    /\ UNCHANGED <<mapVars, clVars>>

PsInit ==
    /\ \E n \in 0..MaxConfigs, ds \in {"none", "noshot", "ok"} :
           \E ca \in [Range(ConfigNames(n)) -> ConfigAttrChoices] :
               control_group = ControlGroup(n, ds, ca)
    /\ ps_pc = "new"
    /\ ps_i = 1
    /\ configs = EmptyDict
    /\ build_successful = "unset"
    /\ flag_log = <<>>

\* no N5700_PS mapping is under construction
PsIdle ==
    /\ control_group = ControlGroup(0, "none", EmptyDict)
    /\ ps_pc = "idle"
    /\ ps_i = 1
    /\ configs = EmptyDict
    /\ build_successful = "unset"
    /\ flag_log = <<>>

PsNext == BuildStart \/ BuildConfig

(***************************************************************************)
(* The specifications.                                                     *)
(***************************************************************************)
Init ==
    \/ MapInit /\ PsIdle /\ ClIdle
    \/ MapIdle /\ PsInit /\ ClIdle
    \/ MapIdle /\ PsIdle /\ ClInit

Next == MapNext \/ PsNext \/ SearchEntry

Spec == Init /\ [][Next]_vars

\* hdf_version as a function of the stored file: any file, the property read
VersionInit ==
    /\ hdf_obj \in Files
    /\ pc = "bound"
    /\ err = "none"
    /\ attached = {}
    /\ attrs = EmptyDict
    /\ msi = EmptyDict
    /\ digitizers = EmptyDict
    /\ controls = EmptyDict
    /\ unknowns = <<>>
    /\ ret = Returned("none", None)
    /\ ret_dict = EmptyDict
    /\ ret_list = <<>>
    /\ PsIdle
    /\ ClIdle

VersionNext == get_hdf_version

SpecVersion == VersionInit /\ [][VersionNext]_vars

(***************************************************************************)
(* Properties.                                                             *)
(***************************************************************************)

\* C1: hdfMap.__init__ on a file whose root attributes lack the key
\* 'LaPD HDF5 software version' raises ValueError before any attribute dict
\* or mapping is attached; on a file with the key it does not raise it.
C1_ValueErrorBeforeAttach ==
    /\ pc = "new" => attached = {}
    /\ pc \in {"attrs", "msi", "digitizers", "controls", "unknowns", "done", "raised"} =>
          IF LAPD_KEY \in DOMAIN hdf_obj.attrs
          THEN err # "ValueError"
          ELSE pc = "raised" /\ err = "ValueError" /\ attached = {}

C1_Witness ==
    /\ pc = "raised"
    /\ err = "ValueError"
    /\ LAPD_KEY \notin DOMAIN hdf_obj.attrs
    /\ MSI_GNAME \in Range(hdf_obj.root)

\* C2: after construction msi is the HDFMapMSI mapping of the 'MSI' group if
\* the file has that group and {} otherwise; digitizers and controls are
\* built from 'Raw data + config' if the file has that group and are {}
\* otherwise; has_msi_diagnostics, has_digitizers and has_controls are False
\* when the corresponding group is missing.
C2_AttachByGroup ==
    /\ pc = "done" =>
          /\ msi = IF MSI_GNAME \in Range(hdf_obj.root)
                   THEN HDFMapMSI(hdf_obj) ELSE EmptyDict
          /\ digitizers = IF DATA_GNAME \in Range(hdf_obj.root)
                          THEN hdfMap_digitizers(hdf_obj) ELSE EmptyDict
          /\ controls = IF DATA_GNAME \in Range(hdf_obj.root)
                        THEN HDFMapControls(hdf_obj) ELSE EmptyDict
    /\ (ret.prop = "has_msi_diagnostics" /\ MSI_GNAME \notin Range(hdf_obj.root)) =>
          ret.val = PyBool(FALSE)
    /\ (ret.prop = "has_digitizers" /\ DATA_GNAME \notin Range(hdf_obj.root)) =>
          ret.val = PyBool(FALSE)
    /\ (ret.prop = "has_controls" /\ DATA_GNAME \notin Range(hdf_obj.root)) =>
          ret.val = PyBool(FALSE)

C2_Witness ==
    /\ pc = "done"
    /\ MSI_GNAME \notin Range(hdf_obj.root)
    /\ DATA_GNAME \in Range(hdf_obj.root)
    /\ DOMAIN digitizers = {"SIS 3301", "SIS crate"}
    /\ DOMAIN controls = {"N5700_PS"}
    /\ ret.prop = "has_msi_diagnostics"

\* C3: has_unknowns returns True when at least one subgroup of the data group
\* is neither a mapped digitizer nor a mapped control, and False otherwise.
C3_HasUnknownsDataGroupOnly ==
    ret.prop = "has_unknowns" =>
        ret.val = PyBool(\E item \in Range(hdf_obj.data) :
                            item \notin (DOMAIN digitizers \cup DOMAIN controls))

\* C4: main_digitizer returns the mapping of 'SIS 3301' whenever it is a key
\* of digitizers, that of 'SIS crate' only when 'SIS 3301' is absent, and
\* None when neither is a key.
C4_MainDigitizer ==
    ret.prop = "main_digitizer" =>
        ret.val = IF "SIS 3301" \in DOMAIN digitizers THEN digitizers["SIS 3301"]
                  ELSE IF "SIS crate" \in DOMAIN digitizers THEN digitizers["SIS crate"]
                  ELSE None

C4_Witness ==
    /\ ret.prop = "main_digitizer"
    /\ {"SIS 3301", "SIS crate"} \subseteq DOMAIN digitizers
    /\ ret.val = digitizers["SIS 3301"]

\* C5: hdf_version returns the UTF-8 decoded root attribute 'LaPD HDF5
\* software version', and the empty string '' if the file was not LaPD
\* generated.
C5_HdfVersionOrEmpty ==
    ret.prop = "hdf_version" =>
        /\ ret.exc = "none"
        /\ ret.val = IF LAPD_KEY \in DOMAIN hdf_obj.attrs
                     THEN PyStr(hdf_obj.attrs[LAPD_KEY].v)
                     ELSE PyStr("")

\* C6: no step of the construction of hdfMap or of the N5700_PS mapping, and
\* no read of a property, changes the HDF5 file or the control group.
C6_FileUnchanged == [][hdf_obj' = hdf_obj /\ control_group' = control_group]_vars

C6_Witness ==
    /\ pc = "done"
    /\ ret.prop = "exp_info"
    /\ "Investigator" \in DOMAIN hdf_obj.data_attrs
    /\ "Calibration" \in DOMAIN hdf_obj.msi_attrs

\* C7: _build_configs first sets _build_successful to True; every assignment
\* of False is followed by the return, so after a failure no further
\* configuration subgroup is processed and the flag is never set back to
\* True within the build.
C7_FlagFallThrough ==
    ps_pc \in {"loop", "returned", "raised"} =>
        /\ Len(flag_log) >= 1
        /\ flag_log[1] = "True"
        /\ build_successful = flag_log[Len(flag_log)]
        /\ \A i \in 1..Len(flag_log) :
              flag_log[i] = "False" => i = Len(flag_log) /\ ps_pc = "returned"
        /\ \A i \in 1..Len(flag_log) : flag_log[i] \in {"True", "False"}
        /\ build_successful = "False" =>
              \A j \in 1..Len(control_group.sgroup_names) :
                 j > ps_i => control_group.sgroup_names[j] \notin DOMAIN configs

C7_Witness ==
    /\ ps_pc = "returned"
    /\ build_successful = "False"
    /\ ps_i = 1
    /\ Len(control_group.sgroup_names) = 2
    /\ DOMAIN configs = {control_group.sgroup_names[1]}

ConfigKeys ==
    {"IP address", "power supply device", "initial state", "command list",
     "dset paths", "shotnum", "state values"}

GeneralKeys == {"IP address", "power supply device", "initial state", "command list"}

\* C8 as claimed: whenever _build_configs returns, with the flag True or
\* False, every entry of configs holds all of the keys 'IP address', 'power
\* supply device', 'initial state', 'command list', 'dset paths', 'shotnum'
\* and 'state values'.
C8_NoPartialEntry ==
    ps_pc = "returned" =>
        \A name \in DOMAIN configs : ConfigKeys \subseteq DOMAIN configs[name]

\* C8 as amended: whenever _build_configs returns with the flag True, configs
\* has an entry for every subgroup and every entry holds all of the keys; when
\* it returns with the flag False, the entries of the subgroups before the
\* failing one hold all of the keys, and the entry of the failing subgroup,
\* if there is one, holds only the four general keys, its 'command list'
\* being None.
C8_UniformOnSuccess ==
    ps_pc = "returned" =>
        /\ build_successful = "True" =>
              /\ DOMAIN configs = Range(control_group.sgroup_names)
              /\ \A name \in DOMAIN configs : DOMAIN configs[name] = ConfigKeys
        /\ build_successful = "False" =>
              \A j \in 1..Len(control_group.sgroup_names) :
                 LET name == control_group.sgroup_names[j]
                 IN /\ j < ps_i => name \in DOMAIN configs
                                   /\ DOMAIN configs[name] = ConfigKeys
                    /\ j = ps_i /\ name \in DOMAIN configs =>
                          /\ DOMAIN configs[name] = GeneralKeys
                          /\ configs[name]["command list"].t = "NoneType"
                    /\ j > ps_i => name \notin DOMAIN configs

C8_Witness ==
    /\ ps_pc = "returned"
    /\ build_successful = "False"
    /\ ps_i = 2
    /\ DOMAIN configs = Range(control_group.sgroup_names)
    /\ DOMAIN configs[control_group.sgroup_names[1]] = ConfigKeys
    /\ DOMAIN configs[control_group.sgroup_names[2]] = GeneralKeys

\* a nonempty run of digits
AllDigits(n) == Len(n) >= 1 /\ \A k \in 1..Len(n) : n[k] = DIGIT

\* an unsigned decimal numeral: digits '.' optional-digits, '.' digits, or digits
IsNumeral(n) ==
    \/ AllDigits(n)
    \/ \E p \in 1..Len(n) :
          /\ n[p] = "."
          /\ Len(n) >= 2
          /\ p > 1 => AllDigits(SubSeq(n, 1, p - 1))
          /\ p < Len(n) => AllDigits(SubSeq(n, p + 1, Len(n)))

\* s[i..e] is the word-bounded token, one whitespace character and a numeral
ClaimedForm(s, i, e) ==
    /\ s[i] = TOKEN
    /\ i = 1 \/ s[i - 1] \notin {TOKEN, DIGIT, LETTER}
    /\ i + 2 <= e
    /\ s[i + 1] \in {BLANK, LF}
    /\ IsNumeral(SubSeq(s, i + 2, e))

\* the same, a numeral of digits alone not being followed by a word character
AmendedForm(s, i, e) ==
    /\ ClaimedForm(s, i, e)
    /\ AllDigits(SubSeq(s, i + 2, e)) =>
          (e = Len(s) \/ s[e + 1] \notin {TOKEN, DIGIT, LETTER})

\* C9 as claimed: an entry matches the VOLT pattern exactly when it contains
\* the word-bounded token 'SOURCE:VOLTAGE:LEVEL' followed by a single
\* whitespace character and an unsigned decimal numeral (digits '.'
\* optional-digits, '.' digits, or digits).
C9_MatchesExactlyClaimedForm ==
    cl_res.state = "done" =>
        (cl_res.m.matched <=>
            \E i \in 1..Len(cl), e \in 1..Len(cl) : ClaimedForm(cl, i, e))

\* C9 as amended: an entry matches the VOLT pattern exactly when it contains
\* the word-bounded token followed by a single whitespace character and an
\* unsigned decimal numeral of one of the three forms, where a numeral of
\* digits alone is not immediately followed by a word character (a letter, a
\* digit or an underscore); VAL is then the longest such numeral after the
\* leftmost such token, and entries without this form yield no match.
C9_MatchesAmendedForm ==
    cl_res.state = "done" =>
        LET F == {ie \in (1..Len(cl)) \X (1..Len(cl)) : AmendedForm(cl, ie[1], ie[2])}
        IN /\ cl_res.m.matched <=> F # {}
           /\ cl_res.m.matched =>
                 \E ie \in F :
                    /\ \A o \in F : ie[1] < o[1] \/ (ie[1] = o[1] /\ ie[2] >= o[2])
                    /\ cl_res.m.VAL = SubSeq(cl, ie[1] + 2, ie[2])
                    /\ cl_res.m.VOLT = SubSeq(cl, ie[1], ie[2])
           /\ ~cl_res.m.matched => cl_res.m = NoMatch

C9_Witness ==
    /\ cl_res.state = "done"
    /\ cl_res.m.matched
    /\ cl = <<TOKEN, BLANK, DIGIT, "-">>
    /\ cl_res.m.VAL = <<DIGIT>>
    /\ cl_res.m.VOLT = <<TOKEN, BLANK, DIGIT>>

\* the dict d with every bytes value replaced by the str of the same text
DecodedView(d) ==
    [k \in DOMAIN d |-> IF d[k].t = "bytes" THEN [t |-> "str", v |-> d[k].v] ELSE d[k]]

ExpectedAttrs(f) ==
    (MSI_GNAME :> (IF MSI_GNAME \in Range(f.root) THEN DecodedView(f.msi_attrs)
                   ELSE EmptyDict))
    @@ (DATA_GNAME :> (IF DATA_GNAME \in Range(f.root) THEN DecodedView(f.data_attrs)
                       ELSE EmptyDict))

\* C10: attrs always holds exactly the keys 'MSI' and 'Raw data + config';
\* each maps to the attributes of that group with every bytes value replaced
\* by its UTF-8 decoded string (other values unchanged), and to {} when the
\* group is absent from the file.
C10_AttrsDecoded ==
    /\ "attrs" \in attached => DOMAIN attrs = {MSI_GNAME, DATA_GNAME}
    /\ pc = "done" => attrs = ExpectedAttrs(hdf_obj)
    /\ ret.prop = "attrs" => ret_dict = ExpectedAttrs(hdf_obj)

C10_Witness ==
    /\ ret.prop = "attrs"
    /\ MSI_GNAME \notin Range(hdf_obj.root)
    /\ DATA_GNAME \in Range(hdf_obj.root)
    /\ DOMAIN hdf_obj.data_attrs = {"Data run", "Investigator"}
    /\ ret_dict[DATA_GNAME]["Investigator"] = PyStr("me")
    /\ ret_dict[MSI_GNAME] = EmptyDict

====
